---------------------------- MODULE Spec2Model ----------------------------
(***************************************************************************)
(* Model of btcutil/psbt/partial_output.go: the per-output field map of a  *)
(* PSBT.  POutput.deserialize consumes a byte stream of key/value records  *)
(* up to a separator; POutput.serialize re-emits the record's fields.      *)
(*                                                                         *)
(* Streams are sequences of bytes (0..255).  The helpers that live in      *)
(* other files of the package (getKey, wire.ReadVarBytes, the validators,  *)
(* the derivation parsers and serializers, the sorters) are modelled from  *)
(* the specification's sections 4.1, 4.2 and 6.                            *)
(***************************************************************************)
EXTENDS Integers, Sequences, FiniteSets, TLC

VARIABLES
    po,       \* the POutput the handlers work on
    before,   \* the caller's copy of po taken when serialize was last called
    stream,   \* the bytes behind the io.Reader handed to deserialize
    pos,      \* the reader's position in stream (1-based, next unread byte)
    state,    \* "Populated" | "Reading" | "Done" | "Failed" | "Serialized"
    err,      \* the error deserialize returned ("nil" while none)
    w,        \* the bytes serialize wrote to its io.Writer
    ser,      \* what serialize returned: "none" (not called) | "nil" | "WriteFailed"
    thr       \* concurrent serialization: each caller's position, locals and output

vars == <<po, before, stream, pos, state, err, w, ser, thr>>

-----------------------------------------------------------------------------
(* Bounds of the model *)

\* records of the pool an adversarial stream is built from
MaxRecords == 2
\* entries a constructed record holds in each derivation list
MaxEntries == 2

-----------------------------------------------------------------------------
(* Bytes and byte slices *)

\* A nil slice: distinct from every byte sequence, the empty one included.
Nil == <<-1>>

BLen(b) == IF b = Nil THEN 0 ELSE Len(b)

Rep(n, b) == [i \in 1..n |-> b]

RECURSIVE Concat(_)
Concat(ss) == IF ss = <<>> THEN <<>> ELSE Head(ss) \o Concat(Tail(ss))

\* bytes.Compare(a, b) < 0
RECURSIVE BytesLess(_, _)
BytesLess(a, b) ==
    IF b = <<>> THEN FALSE
    ELSE IF a = <<>> THEN TRUE
    ELSE IF Head(a) # Head(b) THEN Head(a) < Head(b)
    ELSE BytesLess(Tail(a), Tail(b))

-----------------------------------------------------------------------------
(* The wire format: type codes, separator, variable-length integers *)

RedeemScriptOutputType == 1
WitnessScriptOutputType == 2
Bip32DerivationOutputType == 3
TaprootInternalKeyOutputType == 4
TaprootTapTreeType == 5
TaprootBip32DerivationOutputType == 6
Separator == 255
MaxPsbtValueLength == 4000000

OutputTypes == {RedeemScriptOutputType, WitnessScriptOutputType,
                Bip32DerivationOutputType, TaprootInternalKeyOutputType,
                TaprootTapTreeType, TaprootBip32DerivationOutputType}

\* little-endian value of a byte sequence
RECURSIVE FromLE(_)
FromLE(b) == IF b = <<>> THEN 0 ELSE Head(b) + 256 * FromLE(Tail(b))

\* the n low bytes of v, little-endian
RECURSIVE ToLE(_, _)
ToLE(v, n) == IF n = 0 THEN <<>> ELSE <<v % 256>> \o ToLE(v \div 256, n - 1)

\* wire.WriteVarInt, for the lengths the model writes (below 2^31)
VarInt(v) ==
    IF v < 253 THEN <<v>>
    ELSE IF v < 65536 THEN <<253>> \o ToLE(v, 2)
    ELSE <<254>> \o ToLE(v, 4)

\* wire.ReadVarInt from r at p: [val, pos, err].  A value of 2^31 or more is
\* above every length the format allows; it is reported as
\* MaxPsbtValueLength + 1, which every bound check and length check rejects
\* as it rejects the value itself.
ReadVarInt(r, p) ==
    IF p > Len(r) THEN [val |-> 0, pos |-> Len(r) + 1, err |-> "Truncated"]
    ELSE LET d == r[p]
             n == IF d < 253 THEN 0 ELSE IF d = 253 THEN 2 ELSE IF d = 254 THEN 4 ELSE 8
             b == SubSeq(r, p + 1, p + n)
         IN  IF p + n > Len(r)
             THEN [val |-> 0, pos |-> Len(r) + 1, err |-> "Truncated"]
             ELSE [val |-> IF n = 0 THEN d
                           ELSE IF \E i \in 4..n : b[i] > (IF i = 4 THEN 127 ELSE 0)
                           THEN MaxPsbtValueLength + 1
                           ELSE FromLE(SubSeq(b, 1, IF n < 4 THEN n ELSE 4)),
                   pos |-> p + n + 1, err |-> "nil"]

\* wire.ReadVarBytes(r, 0, maxLength, ...) from r at p: [value, pos, err]
ReadVarBytes(r, p, maxLength) ==
    LET c == ReadVarInt(r, p) IN
    IF c.err # "nil" THEN [value |-> Nil, pos |-> c.pos, err |-> c.err]
    ELSE IF c.val > maxLength
    THEN [value |-> Nil, pos |-> c.pos, err |-> "OversizedValue"]
    ELSE IF c.pos + c.val - 1 > Len(r)
    THEN [value |-> Nil, pos |-> Len(r) + 1, err |-> "Truncated"]
    ELSE [value |-> SubSeq(r, c.pos, c.pos + c.val - 1),
          pos |-> c.pos + c.val, err |-> "nil"]

\* wire.WriteVarBytes: length prefix and bytes (a nil slice writes length 0)
VarBytes(b) == IF b = Nil THEN VarInt(0) ELSE VarInt(Len(b)) \o b

\* getKey(r): the type byte, or -1 at the separator, and the key data
\* (nil when empty): [keyint, keydata, pos, err]
getKey(r, p) ==
    IF p > Len(r)
    THEN [keyint |-> -1, keydata |-> Nil, pos |-> Len(r) + 1, err |-> "Truncated"]
    ELSE IF r[p] = Separator
    THEN [keyint |-> -1, keydata |-> Nil, pos |-> p + 1, err |-> "nil"]
    ELSE LET k == ReadVarBytes(r, p + 1, MaxPsbtValueLength) IN
         IF k.err # "nil"
         THEN [keyint |-> -1, keydata |-> Nil, pos |-> k.pos, err |-> k.err]
         ELSE [keyint |-> r[p],
               keydata |-> IF k.value = <<>> THEN Nil ELSE k.value,
               pos |-> k.pos, err |-> "nil"]

\* serializeKVPairWithType(w, kt, keyData, value): the bytes it writes
serializeKVPairWithType(kt, keyData, value) ==
    <<kt>> \o VarBytes(keyData) \o VarBytes(value)

-----------------------------------------------------------------------------
(* Field validators and derivation codecs *)

validatePubkey(b) == BLen(b) = 33 /\ b[1] \in {2, 3}

validateXOnlyPubkey(b) == BLen(b) = 32

\* the uint32 path elements of b, whose length is a multiple of 4
RECURSIVE ReadPath(_)
ReadPath(b) ==
    IF Len(b) < 4 THEN <<>>
    ELSE <<FromLE(SubSeq(b, 1, 4))>> \o ReadPath(SubSeq(b, 5, Len(b)))

\* readBip32Derivation(value): [master, path, err]
readBip32Derivation(value) ==
    IF Len(value) < 4 \/ (Len(value) - 4) % 4 # 0
    THEN [master |-> <<>>, path |-> <<>>, err |-> "Malformed"]
    ELSE [master |-> SubSeq(value, 1, 4),
          path |-> ReadPath(SubSeq(value, 5, Len(value))),
          err |-> "nil"]

RECURSIVE WritePath(_)
WritePath(path) ==
    IF path = <<>> THEN <<>> ELSE ToLE(Head(path), 4) \o WritePath(Tail(path))

SerializeBIP32Derivation(master, path) == master \o WritePath(path)

\* the n 32-byte hashes at the head of b
RECURSIVE ReadHashes(_, _)
ReadHashes(b, n) ==
    IF n = 0 THEN <<>>
    ELSE <<SubSeq(b, 1, 32)>> \o ReadHashes(SubSeq(b, 33, Len(b)), n - 1)

\* readTaprootBip32Derivation(xOnlyPubKey, value): [entry, err]
readTaprootBip32Derivation(keydata, value) ==
    LET bad == [entry |-> [XOnlyPubKey |-> keydata, LeafHashes |-> <<>>,
                           MasterKeyFingerprint |-> <<>>, Bip32Path |-> <<>>],
                err |-> "Malformed"]
        c == ReadVarInt(value, 1)
    IN  IF c.err # "nil" THEN bad
        ELSE IF Len(value) < (c.pos - 1) + c.val * 32 + 4 THEN bad
        ELSE LET rest == SubSeq(value, c.pos + c.val * 32, Len(value))
                 d == readBip32Derivation(rest)
             IN  IF d.err # "nil" THEN bad
                 ELSE [entry |-> [XOnlyPubKey |-> keydata,
                                  LeafHashes |-> ReadHashes(
                                      SubSeq(value, c.pos, Len(value)), c.val),
                                  MasterKeyFingerprint |-> d.master,
                                  Bip32Path |-> d.path],
                       err |-> "nil"]

serializeTaprootBip32Derivation(d) ==
    VarInt(Len(d.LeafHashes)) \o Concat(d.LeafHashes)
        \o SerializeBIP32Derivation(d.MasterKeyFingerprint, d.Bip32Path)

-----------------------------------------------------------------------------
(* The output record *)

EmptyPOutput ==
    [RedeemScript |-> Nil, WitnessScript |-> Nil, Bip32Derivation |-> <<>>,
     TaprootInternalKey |-> Nil, TaprootTapTree |-> Nil,
     TaprootBip32Derivation |-> <<>>]


-----------------------------------------------------------------------------
(* POutput.deserialize: one iteration of its for loop *)

Stored(p) == [po |-> p, err |-> "nil"]
Rejected(p, e) == [po |-> p, err |-> e]

\* case RedeemScriptOutputType
caseRedeemScript(p, keydata, value) ==
    IF p.RedeemScript # Nil THEN Rejected(p, "ErrDuplicateKey")
    ELSE IF keydata # Nil THEN Rejected(p, "ErrInvalidKeydata")
    ELSE Stored([p EXCEPT !.RedeemScript = value])

\* case WitnessScriptOutputType
caseWitnessScript(p, keydata, value) ==
    IF p.WitnessScript # Nil THEN Rejected(p, "ErrDuplicateKey")
    ELSE IF keydata # Nil THEN Rejected(p, "ErrInvalidKeydata")
    ELSE Stored([p EXCEPT !.WitnessScript = value])

\* caseBip32Derivation without the scan for an entry with the same key
caseBip32Derivation_NoDupScan(p, keydata, value) ==
    IF ~validatePubkey(keydata) THEN Rejected(p, "ErrInvalidKeydata")
    ELSE LET d == readBip32Derivation(value) IN
         IF d.err # "nil" THEN Rejected(p, d.err)
         ELSE Stored([p EXCEPT !.Bip32Derivation =
                         Append(@, [PubKey |-> keydata,
                                    MasterKeyFingerprint |-> d.master,
                                    Bip32Path |-> d.path])])

\* case Bip32DerivationOutputType
caseBip32Derivation(p, keydata, value) ==
    IF ~validatePubkey(keydata) THEN Rejected(p, "ErrInvalidKeydata")
    ELSE LET d == readBip32Derivation(value) IN
         IF d.err # "nil" THEN Rejected(p, d.err)
         ELSE IF \E i \in 1..Len(p.Bip32Derivation) :
                     p.Bip32Derivation[i].PubKey = keydata
         THEN Rejected(p, "ErrDuplicateKey")
         ELSE Stored([p EXCEPT !.Bip32Derivation =
                         Append(@, [PubKey |-> keydata,
                                    MasterKeyFingerprint |-> d.master,
                                    Bip32Path |-> d.path])])

\* caseTaprootInternalKey without the x-only check of the value
caseTaprootInternalKey_NoValidate(p, keydata, value) ==
    IF p.TaprootInternalKey # Nil THEN Rejected(p, "ErrDuplicateKey")
    ELSE IF keydata # Nil THEN Rejected(p, "ErrInvalidKeydata")
    ELSE Stored([p EXCEPT !.TaprootInternalKey = value])

\* case TaprootInternalKeyOutputType
caseTaprootInternalKey(p, keydata, value) ==
    IF p.TaprootInternalKey # Nil THEN Rejected(p, "ErrDuplicateKey")
    ELSE IF keydata # Nil THEN Rejected(p, "ErrInvalidKeydata")
    ELSE IF ~validateXOnlyPubkey(value) THEN Rejected(p, "ErrInvalidKeydata")
    ELSE Stored([p EXCEPT !.TaprootInternalKey = value])

\* case TaprootTapTreeType
caseTaprootTapTree(p, keydata, value) ==
    IF p.TaprootTapTree # Nil THEN Rejected(p, "ErrDuplicateKey")
    ELSE IF keydata # Nil THEN Rejected(p, "ErrInvalidKeydata")
    ELSE Stored([p EXCEPT !.TaprootTapTree = value])

\* case TaprootBip32DerivationOutputType
caseTaprootBip32Derivation(p, keydata, value) ==
    IF ~validateXOnlyPubkey(keydata) THEN Rejected(p, "ErrInvalidKeydata")
    ELSE LET t == readTaprootBip32Derivation(keydata, value) IN
         IF t.err # "nil" THEN Rejected(p, t.err)
         ELSE IF \E i \in 1..Len(p.TaprootBip32Derivation) :
                     p.TaprootBip32Derivation[i].XOnlyPubKey = keydata
         THEN Rejected(p, "ErrDuplicateKey")
         ELSE Stored([p EXCEPT !.TaprootBip32Derivation = Append(@, t.entry)])

\* caseDefault as the input map has it: the unknown record is passed over
caseDefault_Skip(p, keydata, value) == Stored(p)

\* default: unknown type is allowed for inputs but not outputs
caseDefault(p, keydata, value) == Rejected(p, "ErrInvalidPsbtFormat")

\* switch OutputType(keyint)
dispatch(p, keyint, keydata, value) ==
    CASE keyint = RedeemScriptOutputType -> caseRedeemScript(p, keydata, value)
      [] keyint = WitnessScriptOutputType -> caseWitnessScript(p, keydata, value)
      [] keyint = Bip32DerivationOutputType -> caseBip32Derivation(p, keydata, value)
      [] keyint = TaprootInternalKeyOutputType ->
             caseTaprootInternalKey(p, keydata, value)
      [] keyint = TaprootTapTreeType -> caseTaprootTapTree(p, keydata, value)
      [] keyint = TaprootBip32DerivationOutputType ->
             caseTaprootBip32Derivation(p, keydata, value)
      [] OTHER -> caseDefault(p, keydata, value)

\* returnErr clearing the record before it returns
returnErr_Reset(p, at, e) ==
    [po |-> EmptyPOutput, pos |-> at, state |-> "Failed", err |-> e]

\* `return err`: the record is left as the iterations before left it
returnErr(p, at, e) == [po |-> p, pos |-> at, state |-> "Failed", err |-> e]

\* breakAtSeparator with the separator test after the read of the value
breakAtSeparator_ReadsValue(p, r, at) ==
    [po |-> p, pos |-> ReadVarBytes(r, at, MaxPsbtValueLength).pos,
     state |-> "Done", err |-> "nil"]

\* `break` at the separator, then `return nil`
breakAtSeparator(p, r, at) == [po |-> p, pos |-> at, state |-> "Done", err |-> "nil"]

\* One pass through the loop body with the reader at position at of r:
\* [po, pos, state, err], state "Reading" when the loop goes round again.
deserializeIter(p, r, at) ==
    LET k == getKey(r, at) IN
    IF k.err # "nil" THEN returnErr(p, k.pos, k.err)
    ELSE IF k.keyint = -1 THEN breakAtSeparator(p, r, k.pos)
    ELSE LET v == ReadVarBytes(r, k.pos, MaxPsbtValueLength) IN
         IF v.err # "nil" THEN returnErr(p, v.pos, v.err)
         ELSE LET c == dispatch(p, k.keyint, k.keydata, v.value) IN
              IF c.err # "nil" THEN returnErr(c.po, v.pos, c.err)
              ELSE [po |-> c.po, pos |-> v.pos, state |-> "Reading", err |-> "nil"]

\* deserialize run to its return on a record p and the bytes r from position at
RECURSIVE deserialize(_, _, _)
deserialize(p, r, at) ==
    LET n == deserializeIter(p, r, at) IN
    IF n.state = "Reading" THEN deserialize(n.po, r, n.pos) ELSE n

-----------------------------------------------------------------------------
(* POutput.serialize *)

\* Bip32Sorter.Less: bytes.Compare(s[i].PubKey, s[j].PubKey) < 0
Bip32SorterLess(a, b) == BytesLess(a.PubKey, b.PubKey)

\* TaprootBip32Derivation.SortBefore
SortBefore(a, b) == BytesLess(a.XOnlyPubKey, b.XOnlyPubKey)

RECURSIVE insertBip32(_, _)
insertBip32(e, s) ==
    IF s = <<>> THEN <<e>>
    ELSE IF Bip32SorterLess(e, Head(s)) THEN <<e>> \o s
    ELSE <<Head(s)>> \o insertBip32(e, Tail(s))

\* sort.Sort(Bip32Sorter(po.Bip32Derivation)): the slice after the in-place sort
RECURSIVE sortBip32(_)
sortBip32(l) ==
    IF l = <<>> THEN <<>>
    ELSE insertBip32(l[Len(l)], sortBip32(SubSeq(l, 1, Len(l) - 1)))

RECURSIVE insertTaproot(_, _)
insertTaproot(e, s) ==
    IF s = <<>> THEN <<e>>
    ELSE IF SortBefore(e, Head(s)) THEN <<e>> \o s
    ELSE <<Head(s)>> \o insertTaproot(e, Tail(s))

\* sort.Slice(po.TaprootBip32Derivation, ...SortBefore...), in place
RECURSIVE sortTaproot(_)
sortTaproot(l) ==
    IF l = <<>> THEN <<>>
    ELSE insertTaproot(l[Len(l)], sortTaproot(SubSeq(l, 1, Len(l) - 1)))

\* One serializeKVPairWithType on a writer that accepts s.q more writes.
\* s = [po, w, q, err]; after an error serialize has returned and nothing
\* more happens.
writeKV(s, kt, keyData, value) ==
    IF s.err # "nil" THEN s
    ELSE IF s.q = 0 THEN [s EXCEPT !.err = "WriteFailed"]
    ELSE [s EXCEPT !.w = @ \o serializeKVPairWithType(kt, keyData, value),
                   !.q = @ - 1]

\* for _, kd := range po.Bip32Derivation { ... }
RECURSIVE writeBip32(_, _)
writeBip32(s, l) ==
    IF l = <<>> THEN s
    ELSE writeBip32(
             writeKV(s, Bip32DerivationOutputType, Head(l).PubKey,
                     SerializeBIP32Derivation(Head(l).MasterKeyFingerprint,
                                              Head(l).Bip32Path)),
             Tail(l))

\* for _, derivation := range po.TaprootBip32Derivation { ... }
RECURSIVE writeTaproot(_, _)
writeTaproot(s, l) ==
    IF l = <<>> THEN s
    ELSE writeTaproot(
             writeKV(s, TaprootBip32DerivationOutputType, Head(l).XOnlyPubKey,
                     serializeTaprootBip32Derivation(Head(l))),
             Tail(l))

\* lines 156-171: the two scripts
serializeScripts(s) ==
    LET s1 == IF s.po.RedeemScript # Nil
              THEN writeKV(s, RedeemScriptOutputType, Nil, s.po.RedeemScript)
              ELSE s
    IN  IF s1.po.WitnessScript # Nil
        THEN writeKV(s1, WitnessScriptOutputType, Nil, s1.po.WitnessScript)
        ELSE s1

\* serializeBip32 without the sort
serializeBip32_NoSort(s) ==
    IF s.err # "nil" THEN s ELSE writeBip32(s, s.po.Bip32Derivation)

\* lines 173-186: sort the BIP32 derivations in place, then write them
serializeBip32(s) ==
    IF s.err # "nil" THEN s
    ELSE LET sorted == [s EXCEPT !.po.Bip32Derivation = sortBip32(@)]
         IN  writeBip32(sorted, sorted.po.Bip32Derivation)

\* serializeTaprootFields writing the tap tree under the internal key's type
serializeTaprootFields_WrongType(s) ==
    LET s1 == IF s.po.TaprootInternalKey # Nil
              THEN writeKV(s, TaprootInternalKeyOutputType, Nil,
                           s.po.TaprootInternalKey)
              ELSE s
    IN  IF s1.po.TaprootTapTree # Nil
        THEN writeKV(s1, TaprootInternalKeyOutputType, Nil, s1.po.TaprootTapTree)
        ELSE s1

\* lines 188-206: the Taproot internal key and tap tree
serializeTaprootFields(s) ==
    LET s1 == IF s.po.TaprootInternalKey # Nil
              THEN writeKV(s, TaprootInternalKeyOutputType, Nil,
                           s.po.TaprootInternalKey)
              ELSE s
    IN  IF s1.po.TaprootTapTree # Nil
        THEN writeKV(s1, TaprootTapTreeType, Nil, s1.po.TaprootTapTree)
        ELSE s1

\* lines 208-227: sort the Taproot derivations in place, then write them
serializeTaproot(s) ==
    IF s.err # "nil" THEN s
    ELSE LET sorted == [s EXCEPT !.po.TaprootBip32Derivation = sortTaproot(@)]
         IN  writeTaproot(sorted, sorted.po.TaprootBip32Derivation)

\* serialize ending with a write of the separator
serialize_WithSeparator(p, q) ==
    LET s == serializeTaproot(serializeTaprootFields(serializeBip32(
                 serializeScripts([po |-> p, w |-> <<>>, q |-> q, err |-> "nil"]))))
    IN  IF s.err = "nil" THEN [s EXCEPT !.w = @ \o <<Separator>>] ELSE s

\* serialize(w) on record p with a writer that fails after q writes:
\* [po, w, q, err], po the record as the call leaves it
serialize(p, q) ==
    serializeTaproot(serializeTaprootFields(serializeBip32(serializeScripts(
        [po |-> p, w |-> <<>>, q |-> q, err |-> "nil"]))))

\* the serializeKVPairWithType calls a complete serialize of p makes
NumWrites(p) ==
    (IF p.RedeemScript # Nil THEN 1 ELSE 0)
    + (IF p.WitnessScript # Nil THEN 1 ELSE 0)
    + Len(p.Bip32Derivation)
    + (IF p.TaprootInternalKey # Nil THEN 1 ELSE 0)
    + (IF p.TaprootTapTree # Nil THEN 1 ELSE 0)
    + Len(p.TaprootBip32Derivation)

-----------------------------------------------------------------------------
(* Inputs: constructed records and byte streams *)

PubKeyAA == <<2>> \o Rep(32, 170)
PubKeyAB == <<2>> \o Rep(32, 187)
PubKeyBB == <<3>> \o Rep(32, 187)
XKeyA == Rep(32, 17)
XKeyB == Rep(32, 34)
LeafHash == Rep(32, 204)

Bip32Entries ==
    { [PubKey |-> PubKeyAA, MasterKeyFingerprint |-> <<222, 173, 190, 239>>,
       Bip32Path |-> <<44, 1>>],
      [PubKey |-> PubKeyAB, MasterKeyFingerprint |-> <<1, 2, 3, 4>>,
       Bip32Path |-> <<>>],
      [PubKey |-> PubKeyBB, MasterKeyFingerprint |-> <<1, 2, 3, 4>>,
       Bip32Path |-> <<7>>] }

TaprootEntries ==
    { [XOnlyPubKey |-> XKeyA, LeafHashes |-> <<LeafHash>>,
       MasterKeyFingerprint |-> <<1, 2, 3, 4>>, Bip32Path |-> <<86>>],
      [XOnlyPubKey |-> XKeyB, LeafHashes |-> <<>>,
       MasterKeyFingerprint |-> <<5, 6, 7, 8>>, Bip32Path |-> <<>>] }

\* the lists of at most n distinct elements of S, in every order
Lists(S, n) ==
    { l \in UNION { [1..k -> S] : k \in 0..n } :
        \A i, j \in DOMAIN l : i # j => l[i] # l[j] }

\* Records as a caller constructs them: keys unique within each list (the
\* data model's invariant), lists in any order.
Records ==
    [RedeemScript : {Nil, <<81>>},
     WitnessScript : {Nil, <<82, 83>>},
     Bip32Derivation : Lists(Bip32Entries, MaxEntries),
     TaprootInternalKey : {Nil, XKeyB},
     TaprootTapTree : {Nil, <<192, 1, 81>>},
     TaprootBip32Derivation : Lists(TaprootEntries, MaxEntries)]

\* The records a hostile stream is made of: well-formed ones, ones that
\* repeat a key, and ones that break a rule.
Chunks ==
    { serializeKVPairWithType(RedeemScriptOutputType, Nil, <<81>>),
      serializeKVPairWithType(WitnessScriptOutputType, Nil, <<82, 83>>),
      serializeKVPairWithType(Bip32DerivationOutputType, PubKeyBB, <<1, 2, 3, 4>>),
      serializeKVPairWithType(Bip32DerivationOutputType, PubKeyAA,
                              <<1, 2, 3, 4, 7, 0, 0, 0>>),
      \* the key of the one before, another path
      serializeKVPairWithType(Bip32DerivationOutputType, PubKeyAA, <<9, 9, 9, 9>>),
      \* the same key, a value that is no fingerprint and path
      serializeKVPairWithType(Bip32DerivationOutputType, PubKeyAA, <<1, 2, 3, 4, 5>>),
      \* a 32-byte key where a compressed key is due
      serializeKVPairWithType(Bip32DerivationOutputType, XKeyA, <<1, 2, 3, 4>>),
      serializeKVPairWithType(TaprootInternalKeyOutputType, Nil, XKeyB),
      \* a 31-byte internal key
      serializeKVPairWithType(TaprootInternalKeyOutputType, Nil, Rep(31, 34)),
      serializeKVPairWithType(TaprootTapTreeType, Nil, <<192, 1, 81>>),
      serializeKVPairWithType(TaprootBip32DerivationOutputType, XKeyB,
                              <<0, 5, 6, 7, 8>>),
      serializeKVPairWithType(TaprootBip32DerivationOutputType, XKeyA,
                              <<1>> \o LeafHash \o <<1, 2, 3, 4>>),
      \* key data on a field that carries none
      serializeKVPairWithType(RedeemScriptOutputType, <<7>>, <<81>>),
      \* a type code outside the six
      serializeKVPairWithType(9, Nil, <<81>>),
      \* a declared value length above the maximum
      <<WitnessScriptOutputType, 0, 254>> \o ToLE(MaxPsbtValueLength + 1, 4),
      \* a value cut short
      <<RedeemScriptOutputType, 0, 5, 81>> }

\* what follows the records: nothing, the separator, or the separator and
\* more records
Tails ==
    { <<>>, <<Separator>>,
      <<Separator>> \o serializeKVPairWithType(RedeemScriptOutputType, Nil, <<81>>),
      <<Separator>> \o serializeKVPairWithType(9, Nil, <<81>>) }

\* the streams of at most n records of the pool and a tail
ChunkLists(n) == UNION { [1..k -> Chunks] : k \in 0..n }

-----------------------------------------------------------------------------
(* The state machine *)

NoThreads == <<>>

\* deserialize is called on a fresh record over a hostile stream
InitDecode ==
    /\ po = EmptyPOutput
    /\ before = EmptyPOutput
    /\ \E cs \in ChunkLists(MaxRecords), t \in Tails : stream = Concat(cs) \o t
    /\ pos = 1
    /\ state = "Reading"
    /\ err = "nil"
    /\ w = <<>>
    /\ ser = "none"
    /\ thr = NoThreads

\* NewPsbtOutput and field assignments: a populated record
InitEncode ==
    /\ po \in Records
    /\ before = po
    /\ stream = <<>>
    /\ pos = 1
    /\ state = "Populated"
    /\ err = "nil"
    /\ w = <<>>
    /\ ser = "none"
    /\ thr = NoThreads

Init == InitDecode \/ InitEncode

\* One iteration of deserialize's loop.
DeserializeStep ==
    /\ state = "Reading"
    /\ LET n == deserializeIter(po, stream, pos) IN
         /\ po' = n.po
         /\ pos' = n.pos
         /\ state' = n.state
         /\ err' = n.err
    /\ UNCHANGED <<before, stream, w, ser, thr>>

\* po.serialize(w) on a populated or decoded record, the writer failing
\* after q writes (q = NumWrites(po): not at all).
Serialize ==
    /\ state \in {"Populated", "Done"}
    /\ \E q \in 0..NumWrites(po) :
         LET s == serialize(po, q) IN
           /\ po' = s.po
           /\ w' = s.w
           /\ ser' = s.err
    /\ before' = po
    /\ state' = "Serialized"
    /\ UNCHANGED <<stream, pos, err, thr>>

\* A fresh POutput deserializes what serialize wrote: the bytes as they
\* are, or followed by the separator the caller of serialize writes.
DeserializeCall ==
    /\ state = "Serialized"
    /\ ser = "nil"
    /\ \E sep \in BOOLEAN :
         stream' = IF sep THEN w \o <<Separator>> ELSE w
    /\ po' = EmptyPOutput
    /\ pos' = 1
    /\ state' = "Reading"
    /\ err' = "nil"
    /\ UNCHANGED <<before, w, ser, thr>>

Next == DeserializeStep \/ Serialize \/ DeserializeCall

Spec == Init /\ [][Next]_vars

-----------------------------------------------------------------------------
(* Vocabulary of the properties *)

\* The complete records at the head of r, framed as getKey and ReadVarBytes
\* frame them, up to the first separator or the first framing error.
RECURSIVE FramesFrom(_, _)
FramesFrom(r, p) ==
    LET k == getKey(r, p) IN
    IF k.err # "nil" \/ k.keyint = -1 THEN <<>>
    ELSE LET v == ReadVarBytes(r, k.pos, MaxPsbtValueLength) IN
         IF v.err # "nil" THEN <<>>
         ELSE <<[kt |-> k.keyint, keydata |-> k.keydata, value |-> v.value,
                 start |-> p, end |-> v.pos]>> \o FramesFrom(r, v.pos)

Frames == FramesFrom(stream, 1)

\* where the framing of the stream stops: at the separator, or at an error
FramesEnd == LET F == Frames IN IF F = <<>> THEN 1 ELSE F[Len(F)].end

FramingErrors == {"Truncated", "OversizedValue"}

SingleInstanceTypes == {RedeemScriptOutputType, WitnessScriptOutputType,
                        TaprootInternalKeyOutputType, TaprootTapTreeType}

Decoding == state \in {"Reading", "Done", "Failed"}

\* deserialize has returned
Returned == state \in {"Done", "Failed"}

\* The number of records deserialize has accepted so far: every complete
\* record the reader is past, but for the one whose dispatch failed.
NumAcceptedOf(F) ==
    LET past == Cardinality({i \in DOMAIN F : F[i].end <= pos}) IN
    IF state = "Failed" /\ err \notin FramingErrors THEN past - 1 ELSE past

NumAccepted == NumAcceptedOf(Frames)

\* record j of the stream repeats record i: the same single-instance type,
\* or the same derivation type with the same key
RepeatsIn(F, i, j) ==
    /\ i < j
    /\ F[i].kt = F[j].kt
    /\ \/ F[i].kt \in SingleInstanceTypes
       \/ /\ F[i].kt \in {Bip32DerivationOutputType,
                          TaprootBip32DerivationOutputType}
          /\ F[i].keydata = F[j].keydata

HasRepeatIn(F) == \E i, j \in DOMAIN F : RepeatsIn(F, i, j)

HasRepeat == HasRepeatIn(Frames)

\* record j has the key and value its type asks for
WellFormed(f) ==
    CASE f.kt = Bip32DerivationOutputType ->
             /\ BLen(f.keydata) = 33 /\ f.keydata[1] \in {2, 3}
             /\ Len(f.value) >= 4 /\ Len(f.value) % 4 = 0
      [] f.kt = TaprootBip32DerivationOutputType ->
             /\ BLen(f.keydata) = 32
             /\ readTaprootBip32Derivation(f.keydata, f.value).err = "nil"
      [] OTHER -> TRUE

KeysDistinct(l, Key(_)) ==
    \A i, j \in DOMAIN l : i # j => Key(l[i]) # Key(l[j])

PubKeyOf(e) == e.PubKey
XOnlyPubKeyOf(e) == e.XOnlyPubKey

Ascending(l, Key(_)) ==
    \A i \in DOMAIN l : i < Len(l) => BytesLess(Key(l[i]), Key(l[i + 1]))

Range(l) == {l[i] : i \in DOMAIN l}

\* a validly constructed record
ValidRecord(p) ==
    /\ KeysDistinct(p.Bip32Derivation, PubKeyOf)
    /\ KeysDistinct(p.TaprootBip32Derivation, XOnlyPubKeyOf)
    /\ \A e \in Range(p.Bip32Derivation) :
           /\ Len(e.PubKey) = 33 /\ e.PubKey[1] \in {2, 3}
           /\ Len(e.MasterKeyFingerprint) = 4
    /\ \A e \in Range(p.TaprootBip32Derivation) :
           /\ Len(e.XOnlyPubKey) = 32
           /\ Len(e.MasterKeyFingerprint) = 4
           /\ \A h \in Range(e.LeafHashes) : Len(h) = 32
    /\ p.TaprootInternalKey # Nil => Len(p.TaprootInternalKey) = 32

\* a and b hold the same six fields, the lists as sets of entries
SameFields(a, b) ==
    /\ a.RedeemScript = b.RedeemScript
    /\ a.WitnessScript = b.WitnessScript
    /\ a.TaprootInternalKey = b.TaprootInternalKey
    /\ a.TaprootTapTree = b.TaprootTapTree
    /\ Len(a.Bip32Derivation) = Len(b.Bip32Derivation)
    /\ Range(a.Bip32Derivation) = Range(b.Bip32Derivation)
    /\ Len(a.TaprootBip32Derivation) = Len(b.TaprootBip32Derivation)
    /\ Range(a.TaprootBip32Derivation) = Range(b.TaprootBip32Derivation)

Canonical(p) ==
    /\ Ascending(p.Bip32Derivation, PubKeyOf)
    /\ Ascending(p.TaprootBip32Derivation, XOnlyPubKeyOf)

\* the one list of the entries of S in ascending key order
AscendingList(S, Key(_)) ==
    CHOOSE l \in [1..Cardinality(S) -> S] : Range(l) = S /\ Ascending(l, Key)

\* The records of p in the canonical order, a function of the fields and
\* of the sets of entries alone.
CanonicalBytes(p) ==
    LET bip == AscendingList(Range(p.Bip32Derivation), PubKeyOf)
        tap == AscendingList(Range(p.TaprootBip32Derivation), XOnlyPubKeyOf)
    IN  (IF p.RedeemScript = Nil THEN <<>>
         ELSE serializeKVPairWithType(RedeemScriptOutputType, Nil, p.RedeemScript))
        \o (IF p.WitnessScript = Nil THEN <<>>
            ELSE serializeKVPairWithType(WitnessScriptOutputType, Nil,
                                         p.WitnessScript))
        \o Concat([i \in DOMAIN bip |->
               serializeKVPairWithType(Bip32DerivationOutputType, bip[i].PubKey,
                   SerializeBIP32Derivation(bip[i].MasterKeyFingerprint,
                                            bip[i].Bip32Path))])
        \o (IF p.TaprootInternalKey = Nil THEN <<>>
            ELSE serializeKVPairWithType(TaprootInternalKeyOutputType, Nil,
                                         p.TaprootInternalKey))
        \o (IF p.TaprootTapTree = Nil THEN <<>>
            ELSE serializeKVPairWithType(TaprootTapTreeType, Nil, p.TaprootTapTree))
        \o Concat([i \in DOMAIN tap |->
               serializeKVPairWithType(TaprootBip32DerivationOutputType,
                   tap[i].XOnlyPubKey, serializeTaprootBip32Derivation(tap[i]))])

\* serialize returned nil
Encoded == state = "Serialized" /\ ser = "nil"

\* deserialize has returned from a run over exactly the bytes serialize wrote
DecodedExactBytes == Returned /\ ser = "nil" /\ stream = w

\* deserialize has returned from a run over those bytes and the separator
DecodedWithSeparator == Returned /\ ser = "nil" /\ stream = w \o <<Separator>>

\* the end-to-end example: RedeemScript, no key, value [0x51], separator
OneFieldStream == <<RedeemScriptOutputType, 0, 1, 81, Separator>>

-----------------------------------------------------------------------------
(* Round trip *)

-----------------------------------------------------------------------------
(* The separator *)

-----------------------------------------------------------------------------
(* Canonical ordering *)

\* C3: what serialize emits depends on the record's fields and on the sets
\* of its derivation entries only, not on the order of the lists: redeem
\* script, witness script, BIP32 derivations ascending by public key,
\* Taproot internal key, tap tree, Taproot derivations ascending by x-only
\* key.
C3_CanonicalOrder == Encoded => w = CanonicalBytes(before)

\* a record with both lists out of order has been serialized
C3_Witness ==
    /\ Encoded
    /\ Len(before.Bip32Derivation) >= 2 /\ ~Ascending(before.Bip32Derivation, PubKeyOf)
    /\ ~Ascending(before.TaprootBip32Derivation, XOnlyPubKeyOf)
    /\ before.RedeemScript # Nil /\ before.TaprootTapTree # Nil

\* C4 as stated: after serialize returns, with or without error, every
\* field of the record, the element order of both derivation lists
\* included, is what it was before the call.
C4_SerializeLeavesRecord == state = "Serialized" => po = before

-----------------------------------------------------------------------------
(* Rejections *)

\* C6 as stated: deserialize into an empty record fails with DuplicateKey
\* whenever the stream, before the separator, repeats a single-instance
\* field type or holds two derivation records of one type with the same
\* key; so after a successful decode no record repeated another and each
\* derivation list has pairwise distinct keys.
C6_RepeatFailsDuplicateKey ==
    /\ (Returned /\ HasRepeat) => (state = "Failed" /\ err = "ErrDuplicateKey")
    /\ state = "Done" =>
           /\ ~HasRepeat
           /\ KeysDistinct(po.Bip32Derivation, PubKeyOf)
           /\ KeysDistinct(po.TaprootBip32Derivation, XOnlyPubKeyOf)

\* C6 amended: deserialize into an empty record never succeeds on such a
\* stream.  It fails with DuplicateKey at the repeating record when it
\* gets that far (every record before it was accepted) and, for a
\* derivation record, the record's key and value are well formed; an
\* earlier failing record, or a repeating derivation record with a bad key
\* or value, fails with its own error instead.  So after a successful
\* decode no record repeated another and each derivation list has pairwise
\* distinct keys.
C6_RepeatRejected ==
    LET F == Frames IN
    /\ (Returned /\ HasRepeatIn(F)) => state = "Failed"
    /\ state = "Failed" =>
           \A j \in DOMAIN F :
               ( /\ NumAcceptedOf(F) = j - 1
                 /\ F[j].end = pos
                 /\ \E i \in DOMAIN F : RepeatsIn(F, i, j)
                 /\ WellFormed(F[j]) )
               => err = "ErrDuplicateKey"
    /\ state = "Done" =>
           /\ ~HasRepeatIn(F)
           /\ KeysDistinct(po.Bip32Derivation, PubKeyOf)
           /\ KeysDistinct(po.TaprootBip32Derivation, XOnlyPubKeyOf)

\* a second BIP32 record with the key of an accepted one, another path
C6_Witness ==
    /\ state = "Failed"
    /\ err = "ErrDuplicateKey"
    /\ Len(po.Bip32Derivation) = 1
    /\ \E j \in DOMAIN Frames :
           /\ j >= 2
           /\ Frames[j].end = pos
           /\ Frames[j].kt = Bip32DerivationOutputType
           /\ Frames[j].keydata = po.Bip32Derivation[1].PubKey
           /\ Frames[j].value # SerializeBIP32Derivation(
                  po.Bip32Derivation[1].MasterKeyFingerprint,
                  po.Bip32Derivation[1].Bip32Path)

\* the record of the stream the reader is at, when it is complete
AtFrame ==
    LET k == getKey(stream, pos)
        v == ReadVarBytes(stream, k.pos, MaxPsbtValueLength)
    IN  [complete |-> k.err = "nil" /\ k.keyint # -1 /\ v.err = "nil",
         kt |-> k.keyint]

\* C7: whenever deserialize reads, before the separator, a record whose
\* type code is none of the six output types, it fails with InvalidFormat
\* and stores nothing from it; no decode succeeds on a stream that holds
\* such a record before the separator.
C7_UnknownTypeRejected ==
    /\ [][(state = "Reading" /\ AtFrame.complete /\ AtFrame.kt \notin OutputTypes)
            => (state' = "Failed" /\ err' = "ErrInvalidPsbtFormat" /\ po' = po)]_vars
    /\ [](state = "Done" =>
             LET F == Frames IN \A i \in DOMAIN F : F[i].kt \in OutputTypes)

\* an unknown record after accepted ones has failed the decode
C7_Witness ==
    /\ state = "Failed"
    /\ err = "ErrInvalidPsbtFormat"
    /\ po # EmptyPOutput
    /\ LET F == Frames IN
         \E j \in DOMAIN F :
             /\ F[j].end = pos
             /\ F[j].kt \notin OutputTypes
             /\ NumAcceptedOf(F) = j - 1

-----------------------------------------------------------------------------
(* State left by a decode *)

\* the stream cut after its first n records and closed by the separator
AcceptedPrefix ==
    LET F == Frames
        n == NumAcceptedOf(F)
    IN  SubSeq(stream, 1, IF n = 0 THEN 0 ELSE F[n].end - 1) \o <<Separator>>

\* C8 as stated: when deserialize fails at any record, no field stored
\* from the records before the failing one is observable in the record.
C8_NoPartialState == state = "Failed" => po = EmptyPOutput

\* C8 amended: when deserialize fails at any record it returns the error
\* and the failing record stores nothing, but the record is left partially
\* populated: it holds exactly what a successful decode of the records
\* that preceded the failing one yields.
C8_FailureKeepsAccepted ==
    state = "Failed" =>
        /\ err # "nil"
        /\ LET d == deserialize(EmptyPOutput, AcceptedPrefix, 1) IN
             d.state = "Done" /\ po = d.po

\* a decode that failed after it had stored fields
C8_Witness ==
    /\ state = "Failed"
    /\ err \notin FramingErrors
    /\ NumAccepted >= 1
    /\ po.Bip32Derivation # <<>>

\* the records accepted so far
AcceptedFrames == LET F == Frames IN {F[i] : i \in 1..NumAcceptedOf(F)}

\* C9: at every point of a decode that started from an empty record each
\* BIP32 entry has a 33-byte public key with a compressed-key prefix, each
\* Taproot entry a 32-byte x-only key, the Taproot internal key is absent
\* or 32 bytes long, and no redeem script, witness script, internal key or
\* tap tree was stored from a record that carried key data.
C9_DecodedStructurallyValid ==
    Decoding =>
        /\ \A e \in Range(po.Bip32Derivation) :
               Len(e.PubKey) = 33 /\ e.PubKey[1] \in {2, 3}
        /\ \A e \in Range(po.TaprootBip32Derivation) : Len(e.XOnlyPubKey) = 32
        /\ po.TaprootInternalKey = Nil \/ Len(po.TaprootInternalKey) = 32
        /\ \A f \in AcceptedFrames :
               f.kt \in SingleInstanceTypes => f.keydata = Nil

\* a decode of a hostile stream has stored a derivation entry and an
\* internal key
C9_Witness ==
    /\ state = "Done"
    /\ ser = "none"
    /\ po.Bip32Derivation # <<>> \/ po.TaprootBip32Derivation # <<>>
    /\ po.TaprootInternalKey # Nil

\* C10: once the separator is read in Reading, deserialize is Done and
\* returns nil with the record accumulated so far: the separator is the
\* first one at a record boundary, the reader stands right after it (no
\* value was read for it, no further record), no decode step can follow,
\* and the record is what the stream cut after the separator decodes to,
\* whatever follows it.  A decode that failed on a framing error was not
\* standing at a separator.
C10_StopsAtFirstSeparator ==
    /\ state = "Done" =>
           /\ err = "nil"
           /\ pos = FramesEnd + 1
           /\ stream[pos - 1] = Separator
           /\ LET F == Frames IN NumAcceptedOf(F) = Len(F)
           /\ ~ENABLED DeserializeStep
           /\ LET d == deserialize(EmptyPOutput, SubSeq(stream, 1, pos - 1), 1) IN
                d.state = "Done" /\ d.po = po
    /\ (state = "Failed" /\ err \in FramingErrors) =>
           LET e == FramesEnd IN e > Len(stream) \/ stream[e] # Separator

\* a decode ended at a separator that records follow
C10_Witness ==
    /\ state = "Done"
    /\ pos <= Len(stream)
    /\ po # EmptyPOutput

-----------------------------------------------------------------------------
(* Two callers serialize the same record at the same time.                  *)
(*                                                                          *)
(* Each caller runs serialize step by step on the shared po.  The sorts    *)
(* are the insertion sort the sort package runs on a short slice:          *)
(*   for i := 1; i < n; i++ {                                              *)
(*       for j := i; j > 0 && Less(j, j-1); j-- { Swap(j, j-1) } }         *)
(* Swap reads both elements and then stores them one after the other; the  *)
(* stores are unsynchronised, so the other caller's steps may fall between *)
(* any two of them.                                                         *)

Threads == {1, 2}

NoEntry == <<>>

\* the caller's position after it has entered the sort of its list l of
\* length n: at the first comparison, or past the sort when n < 2
enterSort(t, l, n) ==
    [t EXCEPT !.list = l, !.n = n, !.i = 2, !.j = 2, !.k = 1,
              !.pc = IF n >= 2 THEN "less" ELSE "emit"]

\* Less(j, j-1) of the list the caller sorts
lessAt(p, t) ==
    IF t.list = "Bip32Derivation"
    THEN Bip32SorterLess(p[t.list][t.j], p[t.list][t.j - 1])
    ELSE SortBefore(p[t.list][t.j], p[t.list][t.j - 1])

\* the key/value pair the range loop writes for entry e of the caller's list
emitKV(t, e) ==
    IF t.list = "Bip32Derivation"
    THEN serializeKVPairWithType(Bip32DerivationOutputType, e.PubKey,
             SerializeBIP32Derivation(e.MasterKeyFingerprint, e.Bip32Path))
    ELSE serializeKVPairWithType(TaprootBip32DerivationOutputType, e.XOnlyPubKey,
             serializeTaprootBip32Derivation(e))

\* Records two callers share: every single field set, the lists in any order.
SharedRecords ==
    { p \in Records : /\ p.RedeemScript # Nil /\ p.WitnessScript # Nil
                      /\ p.TaprootInternalKey # Nil /\ p.TaprootTapTree # Nil }

InitConc ==
    /\ po \in SharedRecords
    /\ before = po
    /\ thr = [t \in Threads |->
                 [pc |-> "scripts", list |-> "Bip32Derivation", n |-> 0,
                  i |-> 0, j |-> 0, k |-> 0, a |-> NoEntry, b |-> NoEntry,
                  w |-> <<>>]]
    /\ stream = <<>>
    /\ pos = 1
    /\ state = "Populated"
    /\ err = "nil"
    /\ w = <<>>
    /\ ser = "none"

SequentialVars == <<before, stream, pos, state, err, w, ser>>

\* lines 156-173: write the scripts, then call sort.Sort on the BIP32 slice
WriteScripts(t) ==
    /\ thr[t].pc = "scripts"
    /\ thr' = [thr EXCEPT ![t] =
           enterSort([@ EXCEPT !.w = serializeScripts(
                          [po |-> po, w |-> <<>>, q |-> 2, err |-> "nil"]).w],
                     "Bip32Derivation", Len(po.Bip32Derivation))]
    /\ UNCHANGED <<po, SequentialVars>>

\* the inner loop's test j > 0 && Less(j, j-1), and the outer loop's i++
SortLess(t) ==
    /\ thr[t].pc = "less"
    /\ thr' = [thr EXCEPT ![t] =
           IF @.j > 1 /\ lessAt(po, @) THEN [@ EXCEPT !.pc = "load"]
           ELSE IF @.i + 1 > @.n THEN [@ EXCEPT !.pc = "emit", !.k = 1]
           ELSE [@ EXCEPT !.i = @ + 1, !.j = thr[t].i + 1]]
    /\ UNCHANGED <<po, SequentialVars>>

\* Swap(j, j-1): read both elements
SwapLoad(t) ==
    /\ thr[t].pc = "load"
    /\ thr' = [thr EXCEPT ![t] =
           [@ EXCEPT !.a = po[thr[t].list][thr[t].j],
                     !.b = po[thr[t].list][thr[t].j - 1],
                     !.pc = "store1"]]
    /\ UNCHANGED <<po, SequentialVars>>

\* Swap(j, j-1): s[j] = the element read at j-1
SwapStore1(t) ==
    /\ thr[t].pc = "store1"
    /\ po' = [po EXCEPT ![thr[t].list][thr[t].j] = thr[t].b]
    /\ thr' = [thr EXCEPT ![t].pc = "store2"]
    /\ UNCHANGED SequentialVars

\* Swap(j, j-1): s[j-1] = the element read at j, then j--
SwapStore2(t) ==
    /\ thr[t].pc = "store2"
    /\ po' = [po EXCEPT ![thr[t].list][thr[t].j - 1] = thr[t].a]
    /\ thr' = [thr EXCEPT ![t] =
           [@ EXCEPT !.j = @ - 1, !.a = NoEntry, !.b = NoEntry, !.pc = "less"]]
    /\ UNCHANGED SequentialVars

\* one iteration of the range loop over the sorted slice, and what follows
\* the loop: the Taproot fields, or the return
Emit(t) ==
    /\ thr[t].pc = "emit"
    /\ thr' = [thr EXCEPT ![t] =
           IF @.k <= @.n
           THEN [@ EXCEPT !.w = @ \o emitKV(thr[t], po[thr[t].list][thr[t].k]),
                          !.k = @ + 1]
           ELSE IF @.list = "Bip32Derivation" THEN [@ EXCEPT !.pc = "fields"]
           ELSE [@ EXCEPT !.pc = "done"]]
    /\ UNCHANGED <<po, SequentialVars>>

\* lines 188-212: write the internal key and the tap tree, then call
\* sort.Slice on the Taproot slice
WriteTaprootFields(t) ==
    /\ thr[t].pc = "fields"
    /\ thr' = [thr EXCEPT ![t] =
           enterSort([@ EXCEPT !.w = @ \o serializeTaprootFields(
                          [po |-> po, w |-> <<>>, q |-> 2, err |-> "nil"]).w],
                     "TaprootBip32Derivation", Len(po.TaprootBip32Derivation))]
    /\ UNCHANGED <<po, SequentialVars>>

NextConc ==
    \E t \in Threads :
        \/ WriteScripts(t)
        \/ SortLess(t)
        \/ SwapLoad(t)
        \/ SwapStore1(t)
        \/ SwapStore2(t)
        \/ Emit(t)
        \/ WriteTaprootFields(t)

SpecConc == InitConc /\ [][NextConc]_vars

\* what one caller alone writes for the record
LoneOutput == serialize(before, NumWrites(before)).w

AllReturned == \A t \in Threads : thr[t].pc = "done"

\* C5 as stated: when two callers serialize the same populated record at
\* the same time, under every interleaving each caller's output is the
\* output of a lone serialize of that record, and the shared record is not
\* written.
C5_ConcurrentSerializeSafe ==
    /\ \A t \in Threads : thr[t].pc = "done" => thr[t].w = LoneOutput
    /\ po = before

\* both callers have returned and one of them wrote an entry twice and
\* another not at all
C5_RaceWitness ==
    /\ AllReturned
    /\ \E t \in Threads :
           /\ thr[t].w # LoneOutput
           /\ Len(thr[t].w) = Len(LoneOutput)
    /\ Range(po.Bip32Derivation) # Range(before.Bip32Derivation)

=============================================================================
